---- MODULE Spec2Model ----
(***************************************************************************)
(* Model of src/app.py: a Streamlit script that builds a cached FAISS      *)
(* index over one biography text and answers chat questions through a      *)
(* retrieval chain.  Every user interaction re-executes the whole script:  *)
(* the sidebar (lines 19-31) and then main() (lines 118-158).  One action  *)
(* of the model is one interaction together with the script run(s) it      *)
(* triggers.                                                               *)
(***************************************************************************)
EXTENDS Integers, Sequences, FiniteSets, TLC

\* ------------------------------------------------------------------ bounds

\* A question is asked only while the history has room for its two turns.
MaxHistory == 3

\* The body of build_vector_store runs at most this often per (text, key).
MaxBuilds == 2

\* ------------------------------------------------------ values and inputs

\* Python's None, as returned by get_text_content, build_vector_store and
\* get_rag_chain.
None == [kind |-> "None"]

\* st.file_uploader returns None when nothing is uploaded.
NoFile == "<no file>"

\* An uploaded file whose bytes are not valid UTF-8.
BadBytes == "<bytes that are not utf-8>"

\* get_text_content returns None (no file, or an exception while reading).
NoText == "<None>"

\* st.chat_input returns None when nothing was submitted in this run.
NoPrompt == "<no prompt>"

\* Non-empty document contents.
Docs == {"d1", "d2"}

\* What the file uploader can hold: nothing, an empty file, an undecodable
\* file, or a document.
Uploads == {NoFile, "", BadBytes} \cup Docs

\* What ./biography.txt can be: missing, or a document.
LocalFiles == {NoFile, "d1"}

\* Credentials the Google services accept.
WorkingKeys == {"k1", "k2"}

\* What the API key text input can hold: empty, a rejected key, a working key.
ApiKeys == {"", "bad"} \cup WorkingKeys

\* Questions typed into the chat input and answers the model may return.
Queries == {"q1", "q2"}
Answers == {"a1"}

VARIABLES
    api_key,        \* line 21: the text input's value
    uploaded_file,  \* line 27: the file uploader's value
    localFile,      \* lines 44-47: content of ./biography.txt
    cache,          \* line 53: st.cache_resource's entries of build_vector_store
    messages,       \* st.session_state.messages
    hasMessages,    \* "messages" in st.session_state
    vectorstore,    \* line 132: main's local of the last run (None if not reached)
    screen,         \* where the last run of main ended: warning/info/error/chat
    embedCalls,     \* <<text, key>> -> times the document's chunks went to the Embedder
    lastOp          \* the last interaction and what its script run did

vars == <<api_key, uploaded_file, localFile, cache, messages, hasMessages,
          vectorstore, screen, embedCalls, lastOp>>

\* ---------------------------------------------------------------- helpers

\* Variant: only None is rejected, the empty string passes.
FalsyNoneOnly(text_content) == text_content = "<None>"

\* Python truthiness of a text: None and "" are falsy (lines 58, 126).
Falsy(text_content) == text_content = NoText \/ text_content = ""

\* Lines 35-51: the uploaded file wins over ./biography.txt; a decoding
\* error is caught and gives None.
get_text_content(upload, local) ==
    IF upload # NoFile
    THEN IF upload = BadBytes THEN NoText ELSE upload
    ELSE IF local # NoFile THEN local ELSE NoText

\* The text the current widgets and disk give.
CurrentText == get_text_content(uploaded_file, localFile)

\* Line 76: the FAISS store over the chunks of text_content, holding the
\* embeddings object configured with _api_key (lines 70-73).
Index(text_content, _api_key) ==
    [kind |-> "index", doc |-> text_content, key |-> _api_key]

\* Lines 70-76: the embedding service answers only for a working key, and
\* even then may fail (quota, network): ext is the service's answer.
EmbedderOk(_api_key, ext) == _api_key \in WorkingKeys /\ ext

\* Lines 85-90, 153: the chat model answers only for a working key, and even
\* then may fail (quota, timeout, filtered): ext is the service's answer.
GeneratorOk(_api_key, ext) == _api_key \in WorkingKeys /\ ext

\* ------------------------------------------------- build_vector_store

\* Variant: the key does not depend on the arguments at all.
CacheKeyConstant(text_content, _api_key) == <<"biography">>

\* Line 53-54: st.cache_resource hashes the arguments of the call, leaving
\* out every parameter whose name starts with an underscore.  _api_key is
\* such a parameter, so the key is the text alone.
CacheKey(text_content, _api_key) == <<text_content>>

\* Variant: nothing is stored (the function is not memoized).
CacheWriteDropped(cch, k, value) == cch

\* Variant: only a built index is stored, a None result is not.
CacheWriteIndexOnly(cch, k, value) ==
    IF value = [kind |-> "None"] THEN cch ELSE (k :> value) @@ cch

\* Line 53: st.cache_resource stores whatever the function returned, None
\* included; entries have no ttl and no max_entries, so they stay.
CacheWrite(cch, k, value) == (k :> value) @@ cch

\* Variant: an index is returned although the Embedder failed (what was
\* embedded so far is kept).
build_body_partial(text_content, _api_key, embedOk) ==
    IF text_content = "<None>" \/ text_content = ""
    THEN [kind |-> "None"]
    ELSE [kind |-> "index", doc |-> text_content, key |-> _api_key]

\* Lines 58-81, the function's body: None for a falsy text, None when
\* anything raised (the exception is caught and shown), else the index.
build_body(text_content, _api_key, embedOk) ==
    IF Falsy(text_content) THEN None
    ELSE IF EmbedderOk(_api_key, embedOk)
         THEN Index(text_content, _api_key)
         ELSE None

\* Variant: the body runs on every call, the stored value is never read.
build_vector_store_uncached(text_content, _api_key, cch, embedOk) ==
    LET v == build_body(text_content, _api_key, embedOk) IN
    [value |-> v,
     cache |-> CacheWrite(cch, CacheKey(text_content, _api_key), v),
     ran |-> TRUE, embedded |-> ~Falsy(text_content),
     failed |-> ~Falsy(text_content) /\ ~EmbedderOk(_api_key, embedOk)]

\* Lines 53-81, the cached function: a hit returns the stored value without
\* running the body; a miss runs the body and stores what it returned.
\* ran: the body ran; embedded: the chunks were sent to the Embedder;
\* failed: the Embedder did not embed every chunk (FAISS.from_documents
\* embeds the chunks in one embed_documents call, which raised).
build_vector_store(text_content, _api_key, cch, embedOk) ==
    LET k == CacheKey(text_content, _api_key) IN
    IF k \in DOMAIN cch
    THEN [value |-> cch[k], cache |-> cch, ran |-> FALSE, embedded |-> FALSE,
          failed |-> FALSE]
    ELSE LET v == build_body(text_content, _api_key, embedOk) IN
         [value |-> v, cache |-> CacheWrite(cch, k, v), ran |-> TRUE,
          embedded |-> ~Falsy(text_content),
          failed |-> ~Falsy(text_content) /\ ~EmbedderOk(_api_key, embedOk)]

\* ------------------------------------------------------- get_rag_chain

\* Lines 83-114: the retrieval chain over the store's retriever and a chat
\* model configured with _api_key; None when building it raised (the chat
\* model's constructor, or as_retriever on a None store).
get_rag_chain(vs, _api_key, chainOk) ==
    IF chainOk /\ vs # None
    THEN [kind |-> "chain", index |-> vs, key |-> _api_key]
    ELSE None

\* Line 108: vectorstore.as_retriever() with its defaults returns the 4
\* most similar chunks.
TopK == 4

\* Lines 66-67: the chunks of a text (chunk_size 1000, overlap 200): a text
\* shorter than a chunk is one chunk, the long document gives five.
Chunks(text_content) ==
    IF text_content = "d2"
    THEN <<"d2#1", "d2#2", "d2#3", "d2#4", "d2#5">>
    ELSE <<text_content>>

\* A sequence back to front.
Reverse(seq) == [i \in 1..Len(seq) |-> seq[Len(seq) + 1 - i]]

\* Line 108: the store's similarity ranking of its chunks for a question, a
\* fixed function of the chunks' embeddings and the question's: here the
\* second question is closest to the last chunks, the first to the first.
Rank(chunks, question) ==
    IF question = <<"q2">> THEN Reverse(chunks) ELSE chunks

\* Lines 108-110: the retriever's result for a question, best match first,
\* TopK chunks at most.
Retrieve(vs, question) ==
    LET ranked == Rank(Chunks(vs.doc), question) IN
    SubSeq(ranked, 1, IF Len(ranked) < TopK THEN Len(ranked) ELSE TopK)

\* Lines 92-99: the system prompt's fixed text before {context}.
SystemInstruction ==
    << "You are an AI assistant representing the person described in the context. ",
       "Answer questions as if you are that person. ",
       "Use the following pieces of retrieved context to answer the question. ",
       "If the answer is not in the context, say you don't know based on the biography. ",
       "\n\n" >>

\* Variant: the chunks are put into the prompt worst match first.
RECURSIVE format_context_reversed(_)
format_context_reversed(docs) ==
    IF docs = << >> THEN << >>
    ELSE IF Len(docs) = 1 THEN docs
    ELSE format_context_reversed(Tail(docs)) \o <<"\n\n", Head(docs)>>

\* Line 109, create_stuff_documents_chain: {context} is the retrieved
\* chunks' texts in the order given, joined by a blank line.
RECURSIVE format_context(_)
format_context(docs) ==
    IF docs = << >> THEN << >>
    ELSE IF Len(docs) = 1 THEN docs
    ELSE <<Head(docs), "\n\n">> \o format_context(Tail(docs))

\* Lines 101-106: the chat prompt, the system message with {context} filled
\* in and the human message with {input}.
format_prompt(inp, docs) ==
    << [role |-> "system", content |-> SystemInstruction \o format_context(docs)],
       [role |-> "human", content |-> inp.input] >>

\* Variant: the turns recorded so far are put in front of the question.
chain_input_with_history(prompt, msgs) ==
    [input |-> [i \in 1..Len(msgs) |-> msgs[i].content] \o <<prompt>>]

\* Line 153: the chain's input holds the submitted text and nothing else;
\* st.session_state.messages is not passed.
chain_input(prompt, msgs) == [input |-> <<prompt>>]

\* Line 153, rag_chain.invoke: raises when rag_chain is None, when the
\* retriever cannot embed the question (with the embeddings object held by
\* the store), or when the chat model fails; else returns the answer.
\* request: what the retriever was asked; sent: the prompt the Generator
\* got; llm: the Generator was called.
invoke(rag_chain, inp, retrOk, genOk, reply) ==
    LET quiet == [raised |-> TRUE, llm |-> FALSE, answer |-> "",
                  request |-> << >>, sent |-> << >>]
    IN
    IF rag_chain = None THEN quiet
    ELSE IF ~EmbedderOk(rag_chain.index.key, retrOk)
    THEN [quiet EXCEPT !.request = inp.input]
    ELSE
      LET prompt == format_prompt(inp, Retrieve(rag_chain.index, inp.input)) IN
      IF ~GeneratorOk(rag_chain.key, genOk)
      THEN [quiet EXCEPT !.request = inp.input, !.llm = TRUE, !.sent = prompt]
      ELSE [raised |-> FALSE, llm |-> TRUE, answer |-> reply,
            request |-> inp.input, sent |-> prompt]

\* ----------------------------------------------------------------- main

\* Variant: the chat interface is shown whatever the build returned.
ChatInterfaceAlways(vs) == TRUE

\* Line 135: `if vectorstore:` -- None is falsy, a FAISS store is truthy.
ChatInterface(vs) == vs # None

\* Line 146: the user turn.
UserTurn(prompt) == [role |-> "user", content |-> prompt]

\* Line 156: the assistant turn.
AssistantTurn(answer) == [role |-> "assistant", content |-> answer]

\* Variant: the history is set to [] on every run that shows the chat.
init_messages_always(msgs, has) == << >>

\* Lines 138-139: messages is set to [] only when the session state does
\* not hold it yet.
init_messages(msgs, has) == IF has THEN msgs ELSE << >>

\* Variant: the turns are put at the front of the history.
chat_turn_prepend(msgs, prompt, r) ==
    IF r.raised THEN <<UserTurn(prompt)>> \o msgs
    ELSE <<UserTurn(prompt), AssistantTurn(r.answer)>> \o msgs

\* Variant: the user turn is not recorded when the answer arrives.
chat_turn_answer_only(msgs, prompt, r) ==
    IF r.raised THEN Append(msgs, UserTurn(prompt))
    ELSE Append(msgs, AssistantTurn(r.answer))

\* Lines 145-158: the chat input returned prompt.  The user turn is appended
\* before the try block; the assistant turn only when invoke returned.
chat_turn(msgs, prompt, r) ==
    LET withUser == Append(msgs, UserTurn(prompt)) IN
    IF r.raised THEN withUser
    ELSE Append(withUser, AssistantTurn(r.answer))

\* The external services' answers during one script run.  The calls of a run
\* are made in the order embed documents, build chat model, embed question,
\* generate, and the first failure ends the run's work, so the runs differ
\* only in which call fails first, if any.
AllOk == [embedOk |-> TRUE, chainOk |-> TRUE, retrOk |-> TRUE, genOk |-> TRUE]
Envs == {AllOk,
         [AllOk EXCEPT !.embedOk = FALSE],
         [AllOk EXCEPT !.chainOk = FALSE],
         [AllOk EXCEPT !.retrOk = FALSE],
         [AllOk EXCEPT !.genOk = FALSE]}

\* Without a chat submission line 153 is not reached and the chain built at
\* line 136 is dropped at the end of the run, so such runs differ only in
\* whether the Embedder answered the build.
EnvsOf(pending) ==
    IF pending = NoPrompt
    THEN {AllOk, [AllOk EXCEPT !.embedOk = FALSE]}
    ELSE Envs

\* Lines 118-158: one run of main with the widgets' values, a pending chat
\* submission (or NoPrompt) and the session state and cache it starts from.
main(key, text_content, pending, msgs, has, cch, e, reply) ==
    LET idle == [vectorstore |-> None, cache |-> cch, built |-> FALSE,
                 embedded |-> FALSE, messages |-> msgs, hasMessages |-> has,
                 asked |-> FALSE, generated |-> FALSE, raised |-> FALSE,
                 answer |-> "", request |-> << >>, sent |-> << >>,
                 embedFailed |-> FALSE]
    IN
    IF key = "" THEN idle @@ [screen |-> "warning"]
    ELSE IF Falsy(text_content) THEN idle @@ [screen |-> "info"]
    ELSE
      LET b == build_vector_store(text_content, key, cch, e.embedOk)
          built == [idle EXCEPT !.vectorstore = b.value, !.cache = b.cache,
                                !.built = b.ran, !.embedded = b.embedded,
                                !.embedFailed = b.failed]
      IN
      IF ~ChatInterface(b.value) THEN built @@ [screen |-> "error"]
      ELSE
        LET rag_chain == get_rag_chain(b.value, key, e.chainOk)
            history == init_messages(msgs, has)
            shown == [built EXCEPT !.hasMessages = TRUE,
                                   !.messages = history]
        IN
        IF pending = NoPrompt THEN shown @@ [screen |-> "chat"]
        ELSE
          LET withUser == Append(history, UserTurn(pending))
              r == invoke(rag_chain, chain_input(pending, withUser),
                          e.retrOk, e.genOk, reply)
          IN
          [shown EXCEPT !.messages = chat_turn(history, pending, r),
                        !.asked = TRUE, !.generated = r.llm,
                        !.raised = r.raised, !.answer = r.answer,
                        !.request = r.request, !.sent = r.sent]
          @@ [screen |-> "chat"]

\* -------------------------------------------------------------- actions

\* Variant: the button reruns the script without emptying the history.
ClearButtonKeeps(msgs) == msgs

\* Line 30: the Clear Chat History button's assignment.
ClearButton(msgs) == <<>>

\* The documents' chunks reach the Embedder once more for (text, key).
CountEmbed(calls, text_content, key, embedded) ==
    IF embedded
    THEN [calls EXCEPT ![<<text_content, key>>] = @ + 1]
    ELSE calls

\* One execution of the script after the sidebar: main() with the widgets
\* holding key and upload, the chat input holding pending, and the session
\* state holding msgs/has.  op names the interaction that caused the run.
ScriptRun(op, key, upload, pending, msgs, has) ==
    \E e \in EnvsOf(pending), reply \in Answers :
        LET text_content == get_text_content(upload, localFile)
            r == main(key, text_content, pending, msgs, has, cache, e, reply)
        IN
        /\ r.embedded => embedCalls[<<text_content, key>>] < MaxBuilds
        /\ api_key' = key
        /\ uploaded_file' = upload
        /\ localFile' = localFile
        /\ cache' = r.cache
        /\ messages' = r.messages
        /\ hasMessages' = r.hasMessages
        /\ vectorstore' = r.vectorstore
        /\ screen' = r.screen
        /\ embedCalls' = CountEmbed(embedCalls, text_content, key, r.embedded)
        /\ lastOp' = [op |-> op, prompt |-> pending, built |-> r.built,
                      embedded |-> r.embedded, asked |-> r.asked,
                      generated |-> r.generated, raised |-> r.raised,
                      answer |-> r.answer, request |-> r.request,
                      sent |-> r.sent, embedFailed |-> r.embedFailed]

\* Line 21: the user types another API key; the script reruns.
SetApiKey(k) ==
    /\ k # api_key
    /\ ScriptRun("key", k, uploaded_file, NoPrompt, messages, hasMessages)

\* Line 27: the user uploads, replaces or removes the file; the script reruns.
Upload(f) ==
    /\ f # uploaded_file
    /\ ScriptRun("upload", api_key, f, NoPrompt, messages, hasMessages)

\* Lines 29-31: the button sets messages to [] and st.rerun() restarts the
\* script, which then runs main() with no chat submission.
ClearChatHistory ==
    ScriptRun("clear", api_key, uploaded_file, NoPrompt,
              ClearButton(messages), TRUE)

\* Line 145: the user submits q; the script reruns with the chat input
\* holding q, which main consumes only if it reaches line 145.
Ask(q) ==
    /\ Len(messages) + 2 <= MaxHistory
    /\ ScriptRun("ask", api_key, uploaded_file, q, messages, hasMessages)

\* A rerun with nothing changed (any other widget event).
Rerun ==
    ScriptRun("rerun", api_key, uploaded_file, NoPrompt, messages, hasMessages)

\* The session's first script run: empty key field, nothing uploaded, so
\* main returns at line 121; the cache is empty in a fresh process.
Init ==
    /\ api_key = ""
    /\ uploaded_file = NoFile
    /\ localFile \in LocalFiles
    /\ cache = << >>
    /\ messages = << >>
    /\ hasMessages = FALSE
    /\ vectorstore = None
    /\ screen = "warning"
    /\ embedCalls = [p \in (Docs \cup {""}) \X ApiKeys |-> 0]
    /\ lastOp = [op |-> "init", prompt |-> NoPrompt, built |-> FALSE,
                 embedded |-> FALSE, asked |-> FALSE, generated |-> FALSE,
                 raised |-> FALSE, answer |-> "", request |-> << >>,
                 sent |-> << >>, embedFailed |-> FALSE]

Next ==
    \/ \E k \in ApiKeys : SetApiKey(k)
    \/ \E f \in Uploads : Upload(f)
    \/ ClearChatHistory
    \/ \E q \in Queries : Ask(q)
    \/ Rerun

Spec == Init /\ [][Next]_vars

\* ------------------------------------------------------ session states

\* The spec's session states, read off where the last run of main ended.
Ready == screen = "chat"
Failed == screen = "error"
Uninitialized == screen \in {"warning", "info"}

\* The last interaction was a chat submission that main consumed (line 145).
Processed == lastOp.op = "ask" /\ lastOp.asked

\* The text the widgets and disk give after the step.
NextText == get_text_content(uploaded_file', localFile')

\* The texts for which the cache holds an entry, and those whose entry is a
\* failed build (None).
CachedTexts == {k[1] : k \in DOMAIN cache}
FailedTexts == {k[1] : k \in {c \in DOMAIN cache : cache[c] = None}}

\* ---------------------------------------------------------------- claims

\* C1: a query asked in Ready whose chain invocation raises leaves the
\* conversation history exactly as it was before the query.
C1_FailedQueryLeavesHistory ==
    [][(Ready /\ Processed' /\ lastOp'.raised) => messages' = messages]_vars

\* C2: a query asked in Ready whose chain invocation returns appends exactly
\* two turns to the history, the user turn with the query text and then the
\* assistant turn with the returned answer; the earlier turns are unchanged.
C2_AnsweredQueryAppendsTwoTurns ==
    [][(Ready /\ Processed' /\ ~lastOp'.raised) =>
          messages' = messages \o
              << [role |-> "user", content |-> lastOp'.prompt],
                 [role |-> "assistant", content |-> lastOp'.answer] >>]_vars

\* C2 witness: a query was answered after an earlier turn was in the history.
C2_Witness ==
    /\ Processed /\ ~lastOp.raised
    /\ Len(messages) = 3
    /\ messages[1].content # messages[2].content

\* C3: while no index is available (no key, no document, or a failed build:
\* the last run of main got no store) a submitted query is not processed:
\* the Generator is not called, the history is unchanged and the session
\* stays on the screen it was on, which is not the chat.
C3_NoIndexNoQuery ==
    [][(vectorstore = None /\ lastOp'.op = "ask") =>
          /\ ~lastOp'.asked
          /\ ~lastOp'.generated
          /\ messages' = messages
          /\ hasMessages' = hasMessages
          /\ screen' = screen
          /\ screen' \in {"warning", "info", "error"}]_vars

\* C3 witness: a query was submitted after a failed build, with turns in the
\* history.
C3_Witness ==
    /\ lastOp.op = "ask"
    /\ Failed
    /\ vectorstore = None
    /\ Len(messages) > 0

\* C4: for one document content and one credential the document's chunks go
\* to the Embedder at most once, whatever reruns, queries and resets follow.
C4_EmbeddedAtMostOnce ==
    \A p \in DOMAIN embedCalls : embedCalls[p] <= 1

\* C4 witness: a later run asked for the index of a document embedded once
\* and got it without building.
C4_Witness ==
    /\ lastOp.op \in {"rerun", "clear", "ask"}
    /\ Ready
    /\ ~lastOp.built
    /\ embedCalls[<<CurrentText, api_key>>] = 1

\* C5 as claimed: the index in use was built from the current document with
\* the current credential (a change of either one gives a new index).
C5_IndexMatchesDocumentAndCredential ==
    Ready => vectorstore = Index(CurrentText, api_key)

\* What the code does instead of C5: the cache is keyed by the document
\* content alone.  A build request for a text with no entry runs the build
\* with the current credential; a request for a text with an entry returns
\* that entry without building, whatever the credential.
CacheKeyedByContentOnly ==
    [][(screen' \in {"chat", "error"}) =>
          /\ IF NextText \in CachedTexts
             THEN /\ ~lastOp'.built
                  /\ cache' = cache
                  /\ \E k \in DOMAIN cache :
                        k[1] = NextText /\ vectorstore' = cache[k]
             ELSE /\ lastOp'.built
                  /\ vectorstore' \in {None, Index(NextText, api_key')}
          /\ vectorstore' # None => vectorstore'.doc = NextText]_vars

\* A state C5 excludes: after a credential change the index built with the
\* previous credential is in use.
StaleCredentialIndex ==
    /\ lastOp.op = "key"
    /\ Ready
    /\ ~lastOp.built
    /\ vectorstore.key # api_key
    /\ api_key \in WorkingKeys

\* C6: Clear Chat History empties the history and leaves the index and the
\* cache as they were: the session stays where it was, nothing is embedded by
\* the reset or its rerun, and the query that follows a reset in Ready is
\* processed against the same index without a build.
C6_ResetKeepsIndex ==
    [][/\ lastOp'.op = "clear" =>
            /\ messages' = << >>
            /\ cache' = cache
            /\ vectorstore' = vectorstore
            /\ screen' = screen
            /\ ~lastOp'.built
            /\ embedCalls' = embedCalls
       /\ (lastOp.op = "clear" /\ Ready /\ lastOp'.op = "ask") =>
            /\ lastOp'.asked
            /\ vectorstore' = vectorstore
            /\ ~lastOp'.built]_vars

\* C6 witness: the history was reset in Ready, on a document embedded once.
C6_Witness ==
    /\ lastOp.op = "clear"
    /\ Ready
    /\ messages = << >>
    /\ embedCalls[<<vectorstore.doc, vectorstore.key>>] = 1

\* C7: once a document's build has failed, every run on that document is not
\* Ready, processes no query and attempts no build; queries, resets and
\* reruns in Failed leave the session in Failed with the history untouched
\* by the query.  Only a run on another document can be Ready.
C7_FailedUntilNewDocument ==
    [][/\ NextText \in FailedTexts =>
            /\ screen' # "chat"
            /\ ~lastOp'.asked
            /\ ~lastOp'.built
            /\ NextText \in FailedTexts'
       /\ (Failed /\ lastOp'.op \in {"ask", "clear", "rerun"}) =>
            /\ screen' = "error"
            /\ (lastOp'.op = "ask" => messages' = messages)
       /\ (Failed /\ screen' = "chat") => NextText # CurrentText]_vars

\* C7 witness: a rerun with a working credential on a document whose build
\* failed is still Failed.
C7_Witness ==
    /\ lastOp.op = "rerun"
    /\ Failed
    /\ api_key \in WorkingKeys
    /\ CurrentText \in FailedTexts

\* C8: a failed build is recoverable without changing the document.  For
\* that, a retry (rerun or credential change) with a working credential on
\* the same document has to attempt the build again.
C8_RetryBuildsAgain ==
    [][(/\ Failed
        /\ lastOp'.op \in {"rerun", "key"}
        /\ api_key' \in WorkingKeys
        /\ NextText = CurrentText) => lastOp'.built]_vars

\* C9: a query whose chain invocation raises leaves the session Ready with
\* the same index and cache and no build; the query after it is processed
\* against the same index, again without a build.
C9_GeneratorFailureKeepsReady ==
    [][/\ (Processed' /\ lastOp'.raised) =>
            /\ screen' = "chat"
            /\ cache' = cache
            /\ vectorstore' = vectorstore
            /\ ~lastOp'.built
            /\ embedCalls' = embedCalls
       /\ (Processed /\ lastOp.raised /\ lastOp'.op = "ask") =>
            /\ lastOp'.asked
            /\ vectorstore' = vectorstore
            /\ ~lastOp'.built
            /\ embedCalls' = embedCalls]_vars

\* C9 witness: the Generator was called and failed on a query that followed
\* another failed query.
C9_Witness ==
    /\ Processed /\ lastOp.raised /\ lastOp.generated
    /\ Len(messages) = 2
    /\ messages[1].role = "user" /\ messages[2].role = "user"

\* C10: a run on an empty document ends before the build: nothing is
\* embedded, no index is produced or cached, the session is not Ready (the
\* "please upload" notice when a key is entered) and no query is processed.
C10_EmptyDocumentRejected ==
    [][NextText = "" =>
          /\ screen' = (IF api_key' = "" THEN "warning" ELSE "info")
          /\ vectorstore' = None
          /\ ~lastOp'.built
          /\ ~lastOp'.embedded
          /\ cache' = cache
          /\ embedCalls' = embedCalls
          /\ ~lastOp'.asked
          /\ ~lastOp'.generated
          /\ (lastOp'.op # "clear" => messages' = messages)]_vars

\* C10 witness: an empty file was uploaded into a session that had been
\* Ready, and a query submitted after it was not processed.
C10_Witness ==
    /\ uploaded_file = ""
    /\ lastOp.op = "ask"
    /\ screen = "info"
    /\ Len(messages) > 0

\* C11: the conversation history does not influence generation.  Whatever
\* turns the session holds, a processed query gives the retriever the same
\* request and the Generator the same prompt as the same query does in a
\* session with the same store and credential and no earlier turns.
C11_HistoryDoesNotReachGenerator ==
    (Processed /\ vectorstore # None) =>
        LET fresh == invoke(get_rag_chain(vectorstore, api_key, TRUE),
                            chain_input(lastOp.prompt,
                                        <<UserTurn(lastOp.prompt)>>),
                            TRUE, TRUE, "a1")
        IN
        /\ lastOp.request # << >> => lastOp.request = fresh.request
        /\ lastOp.generated => lastOp.sent = fresh.sent

\* C11 witness: the Generator was called for a query asked on the long
\* document while the history held an earlier turn.
C11_Witness ==
    /\ Processed /\ lastOp.generated
    /\ vectorstore # None /\ vectorstore.doc = "d2"
    /\ Len(messages) = 3
    /\ lastOp.sent # << >>

\* One sequence is the beginning of another.
IsPrefix(a, b) == Len(a) <= Len(b) /\ SubSeq(b, 1, Len(a)) = a

\* C12: the history changes only by turns appended at its end or by an
\* explicit reset: after every interaction other than Clear Chat History the
\* previous history is a prefix of the new one, and a reset leaves it empty.
C12_HistoryAppendOnlyOrReset ==
    [][/\ lastOp'.op # "clear" => IsPrefix(messages, messages')
       /\ lastOp'.op = "clear" => messages' = << >>
       /\ Len(messages') < Len(messages) => lastOp'.op = "clear"]_vars

\* C12 witness: the credential was removed from a session holding three
\* turns, which are all still there.
C12_Witness ==
    /\ lastOp.op = "key"
    /\ screen = "warning"
    /\ Len(messages) = 3

\* C13: an index build is all-or-nothing: when the Embedder fails during a
\* build the run gets no store at all (no partial index and not the previous
\* document's index), nothing but None is stored for the text, the session
\* is Failed and the run processes no query.
C13_BuildAllOrNothing ==
    [][lastOp'.embedFailed =>
          /\ vectorstore' = None
          /\ screen' = "error"
          /\ NextText \in FailedTexts'
          /\ ~lastOp'.asked]_vars

\* C13 witness: the build of a newly uploaded document failed in a session
\* that had answered a query on the previous document's index.
C13_Witness ==
    /\ lastOp.op = "upload"
    /\ lastOp.embedFailed
    /\ Failed
    /\ Len(messages) = 2
    /\ messages[2].role = "assistant"

\* The retrieved chunks and the question the Generator was given, for the
\* last processed query.
Retrieved == Retrieve(vectorstore, <<lastOp.prompt>>)

\* C14: every prompt sent to the Generator is the fixed system instruction
\* (persona, then the rule to say the answer is unknown when it is not in the
\* context), then the retrieved chunks' texts in ranking order, then the
\* literal query text; with nothing retrieved the context is empty and the
\* instruction and the query are still there.
C14_PromptStructure ==
    /\ lastOp.sent # << >> =>
          LET system == lastOp.sent[1]
              human == lastOp.sent[2]
              n == Len(SystemInstruction)
              context == SubSeq(system.content, n + 1, Len(system.content))
          IN
          /\ Len(lastOp.sent) = 2
          /\ system.role = "system"
          /\ SubSeq(system.content, 1, n) = SystemInstruction
          /\ Len(context) = 2 * Len(Retrieved) - 1
          /\ \A i \in 1..Len(Retrieved) : context[2 * i - 1] = Retrieved[i]
          /\ \A i \in 1..(Len(Retrieved) - 1) : context[2 * i] = "\n\n"
          /\ human = [role |-> "human", content |-> <<lastOp.prompt>>]
    /\ \A q \in Queries :
          format_prompt(chain_input(q, << >>), << >>) =
              << [role |-> "system", content |-> SystemInstruction],
                 [role |-> "human", content |-> <<q>>] >>
    /\ "Answer questions as if you are that person. " = SystemInstruction[2]
    /\ "If the answer is not in the context, say you don't know based on the biography. "
           = SystemInstruction[4]

\* C14 witness: the Generator got a prompt for the second question on the
\* long document, whose four best chunks are not in document order.
C14_Witness ==
    /\ lastOp.sent # << >>
    /\ vectorstore # None /\ vectorstore.doc = "d2"
    /\ lastOp.prompt = "q2"
    /\ Len(Retrieved) = TopK
    /\ Retrieved[1] = "d2#5"

\* The step replaces the document of a Ready session by another document.
DocumentChange ==
    /\ Ready
    /\ lastOp'.op = "upload"
    /\ NextText # CurrentText
    /\ ~Falsy(NextText)

\* The chunks in the context part of a prompt.
ContextChunks(sent) ==
    {sent[1].content[i] :
        i \in (Len(SystemInstruction) + 1)..Len(sent[1].content)} \ {"\n\n"}

\* The chunks of a text, as a set.
ChunkSet(text_content) ==
    {Chunks(text_content)[i] : i \in 1..Len(Chunks(text_content))}

\* C15 as claimed: changing the document of a Ready session runs a build of
\* a new index for the new content.  (Documents whose earlier build failed
\* are left aside here: their cached failure is C8's subject.)
C15_DocumentChangeBuilds ==
    [][(DocumentChange /\ NextText \notin FailedTexts) => lastOp'.built]_vars

\* C15 amended: changing the document of a Ready session makes a build
\* request for the new content, which builds a new index exactly when that
\* content has no cache entry yet (an entry, index or failure, is returned
\* as it is); whenever the session is Ready the store is the current
\* document's, and a query's context holds chunks of the current document
\* only, never of the previous one.
C15_DocumentChangeUsesNewIndex ==
    [][/\ DocumentChange =>
            /\ lastOp'.built <=> NextText \notin CachedTexts
            /\ NextText \in CachedTexts'
            /\ screen' \in {"chat", "error"}
       /\ Ready' => vectorstore' # None /\ vectorstore'.doc = NextText
       /\ lastOp'.sent # << >> =>
            ContextChunks(lastOp'.sent) \subseteq ChunkSet(NextText)]_vars

\* C15 witness: the upload was changed to the long document, whose index was
\* in the cache from an earlier build, in a session that holds an answered
\* query and a process that also built the other document's index.
C15_Witness ==
    /\ lastOp.op = "upload"
    /\ uploaded_file = "d2"
    /\ Ready
    /\ ~lastOp.built
    /\ vectorstore = Index("d2", api_key)
    /\ embedCalls[<<"d1", api_key>>] = 1
    /\ Len(messages) = 2

\* C16: in the history every assistant turn comes right after a user turn:
\* the history never starts with an assistant turn and never holds two
\* assistant turns in a row.
C16_AssistantFollowsUser ==
    \A i \in 1..Len(messages) :
        messages[i].role = "assistant" =>
            i > 1 /\ messages[i - 1].role = "user"

\* C16 witness: an answer was recorded after a query that failed and a
\* query that succeeded.
C16_Witness ==
    /\ Len(messages) = 3
    /\ messages[1].role = "user"
    /\ messages[2].role = "user"
    /\ messages[3].role = "assistant"

\* C17: changing the document, whether the new document's build succeeds or
\* fails, leaves the history as it was: the turns recorded on the previous
\* document are still there in the same order.
C17_DocumentChangeKeepsHistory ==
    [][lastOp'.op = "upload" => messages' = messages]_vars

\* C17 witness: the session is Ready on a newly built document and the
\* history holds the two turns of a query answered before the upload.
C17_Witness ==
    /\ lastOp.op = "upload"
    /\ lastOp.built
    /\ Ready
    /\ Len(messages) = 2
    /\ messages[2].role = "assistant"

====
